---- MODULE Spec2Model ----
(***************************************************************************)
(* Model of the fileserver's request pipeline: auth.rs (basic_auth) and    *)
(* main.rs (request_handler, is_safe, handle_file, handle_dir,             *)
(* remove_base_dir, html_link).                                            *)
(*                                                                         *)
(* A string is a sequence of one-character strings (bytes); BadByte is a   *)
(* byte that is not valid UTF-8.  A filesystem is a function from          *)
(* canonical paths (sequences of names) to nodes.                          *)
(***************************************************************************)
EXTENDS Integers, Sequences, FiniteSets, TLC

\* ------------------------------------------------------------------------
\* Strings
\* ------------------------------------------------------------------------

\* A byte that makes a byte string invalid UTF-8 (0xFF).
BadByte == "xFF"

\* ASCII control characters, which http::HeaderValue::from_str rejects.
CtlChars == {"\n"}

\* Option<T>: None, or Some(v).
None == [some |-> FALSE, v |-> <<>>]

Some(x) == [some |-> TRUE, v |-> x]

\* Result of a fallible filesystem call returning a path.
Err == [ok |-> FALSE, path |-> <<>>]

Ok(p) == [ok |-> TRUE, path |-> p]

\* Whether s contains the character c.
Contains(s, c) == \E i \in 1..Len(s) : s[i] = c

\* Index of the first occurrence of c in s (s contains c).
FirstIndex(s, c) == CHOOSE i \in 1..Len(s) : s[i] = c /\ \A j \in 1..(i-1) : s[j] # c

\* str::split(c): the pieces of s between occurrences of c, in order.
RECURSIVE Split(_, _)
Split(s, c) ==
    IF ~Contains(s, c) THEN <<s>>
    ELSE LET i == FirstIndex(s, c)
         IN  <<SubSeq(s, 1, i-1)>> \o Split(SubSeq(s, i+1, Len(s)), c)

\* Whether pat occurs in s at index i.
OccursAt(s, pat, i) ==
    /\ i + Len(pat) - 1 <= Len(s)
    /\ \A k \in 1..Len(pat) : s[i+k-1] = pat[k]

\* str::split_once(pat): None, or Some(<<before, after>>) around the first
\* occurrence of pat in s.
split_once(s, pat) ==
    LET hits == {i \in 1..(Len(s)+1) : OccursAt(s, pat, i)}
    IN  IF hits = {} THEN None
        ELSE LET i == CHOOSE h \in hits : \A g \in hits : h <= g
             IN  Some(<<SubSeq(s, 1, i-1), SubSeq(s, i+Len(pat), Len(s))>>)

\* str::strip_prefix(pre)
strip_prefix(s, pre) ==
    IF Len(pre) <= Len(s) /\ SubSeq(s, 1, Len(pre)) = pre
    THEN Some(SubSeq(s, Len(pre)+1, Len(s)))
    ELSE None

\* Path::to_str / OsStr::to_str: None when the bytes are not valid UTF-8.
to_str(s) == IF Contains(s, BadByte) THEN None ELSE Some(s)

\* The pieces of seq joined with sep between them.
RECURSIVE JoinWith(_, _)
JoinWith(seq, sep) ==
    IF seq = <<>> THEN <<>>
    ELSE IF Len(seq) = 1 THEN seq[1]
    ELSE seq[1] \o sep \o JoinWith(Tail(seq), sep)

\* ------------------------------------------------------------------------
\* std::path
\* ------------------------------------------------------------------------

RootDir == <<"/">>

CurDir == <<".">>

ParentDir == <<".", ".">>

\* Path::has_root
has_root(s) == Len(s) > 0 /\ s[1] = "/"

IsKept(seg) == seg # <<>> /\ seg # CurDir

\* Path::components: RootDir for a leading '/', a leading CurDir of a
\* relative path, ParentDir for '..', and the other non-empty segments;
\* empty segments and inner '.' segments are dropped.
components(s) ==
    LET segs == Split(s, "/")
    IN  (IF has_root(s) THEN <<RootDir>> ELSE <<>>)
        \o (IF ~has_root(s) /\ segs[1] = CurDir THEN <<CurDir>> ELSE <<>>)
        \o SelectSeq(segs, IsKept)

\* Whether sequence p is a prefix of sequence q.
IsPrefix(p, q) == Len(p) <= Len(q) /\ SubSeq(q, 1, Len(p)) = p

\* A raw string prefix comparison.
StrStartsWith(s, base) == IsPrefix(base, s)

\* Path::starts_with: base's components are a prefix of s's components.
starts_with(s, base) == IsPrefix(components(base), components(s))

\* Path::join: an absolute p replaces the base; otherwise p is appended
\* after a separator (added unless the base already ends with one).
join(base, p) ==
    IF has_root(p) THEN p
    ELSE IF base = <<>> THEN p
    ELSE IF base[Len(base)] = "/" THEN base \o p
    ELSE base \o <<"/">> \o p

\* Path::file_name: the last component when it is a normal one.
file_name(s) ==
    LET cs == components(s)
    IN  IF cs = <<>> THEN None
        ELSE LET l == cs[Len(cs)]
             IN  IF l \in {RootDir, CurDir, ParentDir} THEN None ELSE Some(l)

\* ------------------------------------------------------------------------
\* Bytes, UTF-8 and base64
\* ------------------------------------------------------------------------

\* The printable ASCII characters, 0x20..0x7E, in order (x60 is the backtick).
Printable ==
    <<" ", "!", "\"", "#", "$", "%", "&", "'", "(", ")", "*", "+", ",", "-", ".", "/",
      "0", "1", "2", "3", "4", "5", "6", "7", "8", "9", ":", ";", "<", "=", ">", "?",
      "@", "A", "B", "C", "D", "E", "F", "G", "H", "I", "J", "K", "L", "M", "N", "O",
      "P", "Q", "R", "S", "T", "U", "V", "W", "X", "Y", "Z", "[", "\\", "]", "^", "_",
      "x60", "a", "b", "c", "d", "e", "f", "g", "h", "i", "j", "k", "l", "m", "n", "o",
      "p", "q", "r", "s", "t", "u", "v", "w", "x", "y", "z", "{", "|", "}", "~">>

\* The byte value of a character.
ByteOf(c) ==
    IF c = BadByte THEN 255
    ELSE IF c = "\n" THEN 10
    ELSE 31 + (CHOOSE i \in 1..Len(Printable) : Printable[i] = c)

\* The character of a byte value (the bytes the model uses).
CharOf(b) ==
    IF b = 255 THEN BadByte
    ELSE IF b = 10 THEN "\n"
    ELSE Printable[b - 31]

\* str::as_bytes
as_bytes(s) == [i \in 1..Len(s) |-> ByteOf(s[i])]

\* String::from_utf8: None when a byte is not valid UTF-8.
from_utf8(bytes) ==
    IF \E i \in 1..Len(bytes) : bytes[i] >= 128 THEN None
    ELSE Some([i \in 1..Len(bytes) |-> CharOf(bytes[i])])

\* The alphabet of base64::engine::general_purpose::STANDARD.
B64Alphabet ==
    <<"A", "B", "C", "D", "E", "F", "G", "H", "I", "J", "K", "L", "M", "N", "O", "P",
      "Q", "R", "S", "T", "U", "V", "W", "X", "Y", "Z", "a", "b", "c", "d", "e", "f",
      "g", "h", "i", "j", "k", "l", "m", "n", "o", "p", "q", "r", "s", "t", "u", "v",
      "w", "x", "y", "z", "0", "1", "2", "3", "4", "5", "6", "7", "8", "9", "+", "/">>

B64Char(n) == B64Alphabet[n + 1]

IsB64Char(c) == \E i \in 1..64 : B64Alphabet[i] = c

B64Value(c) == (CHOOSE i \in 1..64 : B64Alphabet[i] = c) - 1

\* STANDARD.encode: three bytes to four symbols, '=' padding.
RECURSIVE b64_encode(_)
b64_encode(bytes) ==
    IF bytes = <<>> THEN <<>>
    ELSE IF Len(bytes) = 1 THEN
        <<B64Char(bytes[1] \div 4), B64Char((bytes[1] % 4) * 16), "=", "=">>
    ELSE IF Len(bytes) = 2 THEN
        <<B64Char(bytes[1] \div 4),
          B64Char((bytes[1] % 4) * 16 + bytes[2] \div 16),
          B64Char((bytes[2] % 16) * 4), "=">>
    ELSE
        <<B64Char(bytes[1] \div 4),
          B64Char((bytes[1] % 4) * 16 + bytes[2] \div 16),
          B64Char((bytes[2] % 16) * 4 + bytes[3] \div 64),
          B64Char(bytes[3] % 64)>>
        \o b64_encode(SubSeq(bytes, 4, Len(bytes)))

\* STANDARD.decode: None on a length that is no multiple of four, a symbol
\* outside the alphabet, misplaced padding or non-zero trailing bits.
RECURSIVE b64_decode(_)
b64_decode(s) ==
    IF s = <<>> THEN Some(<<>>)
    ELSE IF Len(s) < 4 THEN None
    ELSE LET last == Len(s) = 4
             v(i) == B64Value(s[i])
         IN  IF ~(IsB64Char(s[1]) /\ IsB64Char(s[2])) THEN None
             ELSE IF last /\ s[3] = "=" /\ s[4] = "=" THEN
                 IF v(2) % 16 # 0 THEN None
                 ELSE Some(<<v(1) * 4 + v(2) \div 16>>)
             ELSE IF ~IsB64Char(s[3]) THEN None
             ELSE IF last /\ s[4] = "=" THEN
                 IF v(3) % 4 # 0 THEN None
                 ELSE Some(<<v(1) * 4 + v(2) \div 16,
                             (v(2) % 16) * 16 + v(3) \div 4>>)
             ELSE IF ~IsB64Char(s[4]) THEN None
             ELSE LET rest == b64_decode(SubSeq(s, 5, Len(s)))
                  IN  IF ~rest.some THEN None
                      ELSE Some(<<v(1) * 4 + v(2) \div 16,
                                  (v(2) % 16) * 16 + v(3) \div 4,
                                  (v(3) % 4) * 64 + v(4)>> \o rest.v)

\* ------------------------------------------------------------------------
\* The filesystem the server runs on
\* ------------------------------------------------------------------------

\* How many symbolic links one path resolution follows before ELOOP.
MaxSymlinks == 3

\* Node kinds: "none" (no entry), "file", "dir", "link" (symbolic link,
\* data = target string), "fifo" (neither file nor directory).
Node(kind, data, readable) == [kind |-> kind, data |-> data, readable |-> readable]

NoNode == Node("none", <<>>, FALSE)

\* Canonical paths of the modelled tree: /r, /r/f, /r/d, /r/d/g, /r/d/<LF>,
\* /r/l, /rx, /rx/s, /rx/<0xFF>, /k.
pR == <<<<"r">>>>

pRF == <<<<"r">>, <<"f">>>>

pRD == <<<<"r">>, <<"d">>>>

pRDG == <<<<"r">>, <<"d">>, <<"g">>>>

pRDN == <<<<"r">>, <<"d">>, <<"\n">>>>

pRL == <<<<"r">>, <<"l">>>>

pRX == <<<<"r", "x">>>>

pRXS == <<<<"r", "x">>, <<"s">>>>

pRXB == <<<<"r", "x">>, <<BadByte>>>>

pK == <<<<"k">>>>

FsPaths == {pR, pRF, pRD, pRDG, pRDN, pRL, pRX, pRXS, pRXB, pK}

\* The string of a canonical path: "/" and the names joined by "/".
PathString(cp) == <<"/">> \o JoinWith(cp, <<"/">>)

\* The filesystem at server start.
InitFs ==
    [cp \in FsPaths |->
        CASE cp = pR   -> Node("dir", <<>>, TRUE)
          [] cp = pRF  -> Node("file", <<"c1">>, TRUE)
          [] cp = pRD  -> Node("dir", <<>>, TRUE)
          [] cp = pRDG -> Node("file", <<"c2">>, TRUE)
          [] cp = pRDN -> Node("file", <<"c3">>, TRUE)
          [] cp = pRL  -> Node("link", PathString(pRXS), TRUE)
          [] cp = pRX  -> Node("dir", <<>>, TRUE)
          [] cp = pRXS -> Node("file", <<"c4">>, TRUE)
          [] cp = pRXB -> NoNode
          [] cp = pK   -> Node("link", PathString(pR), TRUE)]

\* What other processes may do to the tree while requests are handled:
\* remove, re-create, chmod or replace /r/f; retarget /r/l; chmod /r/d;
\* create or remove /rx/<0xFF>.
FsOptions(cp) ==
    CASE cp = pRF  -> {Node("file", <<"c1">>, TRUE), Node("file", <<"c1">>, FALSE),
                       NoNode, Node("fifo", <<>>, TRUE)}
      [] cp = pRL  -> {Node("link", PathString(t), TRUE) : t \in {pRXS, pRF, pRD, pRXB}}
      [] cp = pRD  -> {Node("dir", <<>>, TRUE), Node("dir", <<>>, FALSE)}
      [] cp = pRXB -> {NoNode, Node("file", <<"c5">>, TRUE)}
      [] OTHER     -> {}

Lookup(f, cp) == IF cp \in DOMAIN f THEN f[cp] ELSE NoNode

\* Path resolution as the kernel does it: segs are the '/'-separated
\* segments still to walk from the directory cur; empty and '.' segments
\* stay, '..' goes to the parent, a symbolic link is replaced by its
\* target.  Err for a missing entry (ENOENT), a non-directory in the middle
\* (ENOTDIR) or too many links (ELOOP).
RECURSIVE Walk(_, _, _, _)
Walk(f, cur, segs, fuel) ==
    IF segs = <<>> THEN Ok(cur)
    ELSE LET h == Head(segs)
             t == Tail(segs)
         IN  IF h = <<>> \/ h = CurDir THEN Walk(f, cur, t, fuel)
             ELSE IF h = ParentDir THEN
                 Walk(f, IF cur = <<>> THEN cur ELSE SubSeq(cur, 1, Len(cur)-1), t, fuel)
             ELSE LET cp == Append(cur, h)
                      n == Lookup(f, cp)
                  IN  CASE n.kind = "none" -> Err
                        [] n.kind = "link" ->
                              IF fuel = 0 THEN Err
                              ELSE Walk(f, <<>>, Split(n.data, "/") \o t, fuel - 1)
                        [] n.kind = "dir" -> Walk(f, cp, t, fuel)
                        [] OTHER -> IF t = <<>> THEN Ok(cp) ELSE Err

\* Resolve a path string (relative ones from the working directory "/").
Resolve(f, s) ==
    IF s = <<>> THEN Err ELSE Walk(f, <<>>, Split(s, "/"), MaxSymlinks)

\* The node a path string resolves to, following links (stat).
Stat(f, s) ==
    LET r == Resolve(f, s)
    IN  IF ~r.ok THEN NoNode
        ELSE IF r.path = <<>> THEN Node("dir", <<>>, TRUE)
        ELSE Lookup(f, r.path)

\* std::fs::exists(..).unwrap_or(false)
exists(f, s) == Resolve(f, s).ok

\* std::fs::canonicalize: Ok(absolute symlink-free path string) or Err.
canonicalize(f, s) ==
    LET r == Resolve(f, s)
    IN  IF r.ok THEN Ok(PathString(r.path)) ELSE Err

\* Path::is_file
is_file(f, s) == Stat(f, s).kind = "file"

\* Path::is_dir
is_dir(f, s) == Stat(f, s).kind = "dir"

\* tokio::fs::File::open: Some(contents of the opened file) or None.
open(f, s) ==
    LET n == Stat(f, s)
    IN  IF n.kind = "file" /\ n.readable THEN Some(n.data) ELSE None

\* Path::read_dir: None when the directory cannot be enumerated, else
\* Some(set of entry.path()), each the directory's path joined with a name.
read_dir(f, s) ==
    LET r == Resolve(f, s)
        n == Stat(f, s)
    IN  IF n.kind # "dir" \/ ~n.readable THEN None
        ELSE Some({join(s, cp[Len(cp)]) :
                     cp \in {c \in DOMAIN f : /\ Len(c) = Len(r.path) + 1
                                              /\ SubSeq(c, 1, Len(r.path)) = r.path
                                              /\ f[c].kind # "none"}})

\* ------------------------------------------------------------------------
\* auth.rs
\* ------------------------------------------------------------------------

\* bcrypt::hash, abstractly: the marker of a well-formed hash and the
\* password it was made from.
bcrypt_hash(pw) == <<"$2b$">> \o pw

\* bcrypt::verify(password, hash).unwrap_or(false): an ill-formed hash is an
\* error, which unwrap_or turns into false.
bcrypt_verify(pw, hash) ==
    LET h == strip_prefix(hash, <<"$2b$">>)
    IN  IF h.some THEN h.v = pw ELSE FALSE

\* The passwords the configured users were given (user d's stored
\* "hash" is not a bcrypt hash).
Passwords ==
    (<<"a">> :> <<"p">>) @@ (<<"b">> :> <<"q">>) @@ (<<"c">> :> <<>>)
    @@ (<<"d">> :> <<"p">>) @@ (<<"e">> :> <<"q", ":", "w">>)

\* load_users: the username -> UserData map read from USERS_JSON_PATH.
load_users ==
    (<<"a">> :> [password |-> bcrypt_hash(Passwords[<<"a">>]), directory |-> <<"/", "r">>])
    @@ (<<"b">> :> [password |-> bcrypt_hash(Passwords[<<"b">>]), directory |-> <<"/", "r", "x", "/">>])
    @@ (<<"c">> :> [password |-> bcrypt_hash(Passwords[<<"c">>]), directory |-> <<"/", "k">>])
    @@ (<<"d">> :> [password |-> Passwords[<<"d">>], directory |-> <<"/", "r">>])
    @@ (<<"e">> :> [password |-> bcrypt_hash(Passwords[<<"e">>]), directory |-> <<"/", "r">>])

\* The header value "Basic " + base64(text).
BasicPrefix == <<"B", "a", "s", "i", "c", " ">>

BasicHeader(text) == Some(BasicPrefix \o b64_encode(as_bytes(text)))

\* The credential texts clients send.
Credentials ==
    { <<"a", ":", "p">>, <<"a", ":", "z">>, <<"z", ":", "p">>, <<"a">>,
      <<"a", ":", "p", ":", "z">>, <<"b", ":", "q">>, <<"c", ":">>, <<"c">>,
      <<"d", ":", "p">>, <<"e", ":", "q", ":", "w">>, <<"e", ":", "q">> }

\* The Authorization headers clients send: none, Basic ones, another scheme,
\* text that is not base64, base64 of bytes that are not UTF-8, and a value
\* that is not visible ASCII.
Headers ==
    {None} \cup {BasicHeader(c) : c \in Credentials}
    \cup { Some(<<"B", "e", "a", "r", "e", "r", " ", "x">>),
           Some(BasicPrefix \o <<"!", "!", "!", "!">>),
           Some(BasicPrefix \o b64_encode(<<255, 58, 112>>)),
           Some(<<BadByte>>) }

\* HeaderValue::to_str: None unless every byte is visible ASCII.
header_to_str(hv) ==
    IF \E i \in 1..Len(hv) : ByteOf(hv[i]) < 32 \/ ByteOf(hv[i]) > 126 THEN None
    ELSE Some(hv)

\* The n-th item of an iterator over seq, .unwrap_or("").
NextOrEmpty(seq, n) == IF n <= Len(seq) THEN seq[n] ELSE <<>>

\* The pair if a text without ':' were not taken as a username.
provided_auth_needs_colon(decoded_str) ==
    IF ~Contains(decoded_str, ":") THEN [username |-> <<>>, password |-> <<>>]
    ELSE LET pieces == Split(decoded_str, ":")
         IN  [username |-> pieces[1], password |-> pieces[2]]

\* The (username, password) pair basic_auth takes from the decoded text:
\* the first and the second piece of decoded_str.split(':').
provided_auth(decoded_str) ==
    LET pieces == Split(decoded_str, ":")
    IN  [username |-> NextOrEmpty(pieces, 1), password |-> NextOrEmpty(pieces, 2)]

\* basic_auth down to the call of next.run: "ok" with the AuthenticatedUser
\* inserted into the request, or the condition that fell through.
basic_auth(users, header) ==
    LET Reject(why) == [outcome |-> why, au |-> None]
    IN  IF ~header.some THEN Reject("no_header")
        ELSE LET auth_str == header_to_str(header.v)
        IN  IF ~auth_str.some THEN Reject("not_ascii")
        ELSE LET encoded == strip_prefix(auth_str.v, BasicPrefix)
        IN  IF ~encoded.some THEN Reject("not_basic")
        ELSE LET decoded == b64_decode(encoded.v)
        IN  IF ~decoded.some THEN Reject("not_base64")
        ELSE LET decoded_str == from_utf8(decoded.v)
        IN  IF ~decoded_str.some THEN Reject("not_utf8")
        ELSE LET pa == provided_auth(decoded_str.v)
        IN  IF pa.username \notin DOMAIN users THEN Reject("unknown_user")
        ELSE IF ~bcrypt_verify(pa.password, users[pa.username].password)
             THEN Reject("bad_password")
        ELSE [outcome |-> "ok",
              au |-> Some([username |-> pa.username,
                           directory |-> users[pa.username].directory])]

\* An HTTP response: status, set of <<header name, value>>, body.
Response(status, headers, body) == [status |-> status, headers |-> headers, body |-> body]

\* No response was produced.
NoResponse == Response(0, {}, <<>>)

\* The response a rejection with the given outcome gets if "unknown user"
\* were answered differently from the other failures.
unauthorized_leaky(outcome) ==
    IF outcome = "unknown_user" THEN Response(401, {}, <<"Unknown user">>)
    ELSE Response(401, {<<"WWW-Authenticate", <<"Basic realm=\"Files\"">>>>},
                  <<"Unauthorized">>)

\* The response at the end of basic_auth, whatever the condition that fell
\* through.
unauthorized(outcome) ==
    Response(401, {<<"WWW-Authenticate", <<"Basic realm=\"Files\"">>>>}, <<"Unauthorized">>)

\* ------------------------------------------------------------------------
\* main.rs: pure parts
\* ------------------------------------------------------------------------

\* The not_found!() response.
not_found == Response(404, {}, <<"Not Found">>)

\* The fallback response of request_handler (neither file nor directory).
internal_error == Response(500, {}, <<"Internal server error">>)

\* axum's answer when Extension<AuthenticatedUser> is not in the request.
missing_extension == Response(500, {}, <<"Missing request extension">>)

\* The three routes of the router.
Routes == {"/files", "/files/", "/files/{*wildcard}"}

\* The layer is added after "/files" only: the later routes are not wrapped.
layered_first_route_only(route) == route = "/files"

\* Whether basic_auth wraps the route: .layer() follows all three .route()
\* calls, so it wraps each of them.
layered(route) == route \in Routes

\* absolute_file_path of request_handler.
absolute_file_path(dir, path) == IF path.some THEN join(dir, path.v) ELSE dir

\* is_safe without its first check.
no_parent_dir_check(path) == FALSE

\* First check of is_safe: some component of the path is '..'.
has_parent_dir(path) ==
    \E i \in 1..Len(components(path)) : components(path)[i] = ParentDir

\* The containment test as a comparison of the strings.
is_contained_raw(true_path, base_dir) == StrStartsWith(true_path, base_dir)

\* Second check of is_safe: true_path.starts_with(Path::new(base_dir)).
is_contained(true_path, base_dir) == starts_with(true_path, base_dir)

\* is_safe(path, base_dir) on filesystem f.  true_path is what canonicalize
\* returned (when it was called and succeeded); panicked is the unwrap of
\* true_path.to_str() inside warn!, which is evaluated when the level is
\* enabled.
is_safe(f, path, base_dir, warn) ==
    IF has_parent_dir(path)
    THEN [safe |-> FALSE, panicked |-> FALSE, canonicalized |-> FALSE, true_path |-> Err]
    ELSE LET tp == canonicalize(f, path)
         IN  IF ~tp.ok
             THEN [safe |-> FALSE, panicked |-> FALSE, canonicalized |-> TRUE, true_path |-> tp]
             ELSE IF is_contained(tp.path, base_dir)
             THEN [safe |-> TRUE, panicked |-> FALSE, canonicalized |-> TRUE, true_path |-> tp]
             ELSE [safe |-> FALSE,
                   panicked |-> warn /\ (~to_str(path).some \/ ~to_str(tp.path).some),
                   canonicalized |-> TRUE, true_path |-> tp]

\* mime_guess::from_path(..).first_or_octet_stream(): the modelled names
\* have no extension.
mime_guess(file_path) == <<"application/octet-stream">>

\* HeaderValue::from_str: None when the value has a control character.
header_from_str(v) ==
    IF \E i \in 1..Len(v) : v[i] \in CtlChars THEN None ELSE Some(v)

\* handle_file(f, file_path), contents being what the opened file streams.
\* panicked: file_name() is None, or the header value is rejected.
handle_file(contents, file_path) ==
    LET fname == file_name(file_path)
        filename == IF fname.some /\ to_str(fname.v).some THEN fname.v
                    ELSE <<"f", "i", "l", "e">>
        cd == header_from_str(<<"attachment; filename=\"">> \o filename \o <<"\"">>)
    IN  IF ~fname.some \/ ~cd.some
        THEN [panicked |-> TRUE, resp |-> NoResponse]
        ELSE [panicked |-> FALSE,
              resp |-> Response(200,
                                {<<"Content-Type", mime_guess(file_path)>>,
                                 <<"Content-Disposition", cd.v>>},
                                contents)]

\* Lexicographic order of two byte strings.
RECURSIVE BytesLess(_, _)
BytesLess(a, b) ==
    IF b = <<>> THEN FALSE
    ELSE IF a = <<>> THEN TRUE
    ELSE IF ByteOf(a[1]) # ByteOf(b[1]) THEN ByteOf(a[1]) < ByteOf(b[1])
    ELSE BytesLess(Tail(a), Tail(b))

\* Order of std::path::Component: RootDir < CurDir < ParentDir < Normal,
\* normal components by their bytes.
CompRank(c) == IF c = RootDir THEN 1 ELSE IF c = CurDir THEN 2 ELSE IF c = ParentDir THEN 3 ELSE 4

CompLess(c1, c2) ==
    \/ CompRank(c1) < CompRank(c2)
    \/ CompRank(c1) = 4 /\ CompRank(c2) = 4 /\ BytesLess(c1, c2)

RECURSIVE CompsLess(_, _)
CompsLess(p, q) ==
    IF q = <<>> THEN FALSE
    ELSE IF p = <<>> THEN TRUE
    ELSE IF p[1] # q[1] THEN CompLess(p[1], q[1])
    ELSE CompsLess(Tail(p), Tail(q))

\* Ord of PathBuf: by components.
PathLess(p, q) == CompsLess(components(p), components(q))

\* children.sort(): the paths of set S in ascending order.
RECURSIVE sort(_)
sort(S) ==
    IF S = {} THEN <<>>
    ELSE LET m == CHOOSE x \in S : \A y \in S : ~PathLess(y, x)
         IN  <<m>> \o sort(S \ {m})

\* Length of what precedes the body of a path: the root, or the leading
\* '.' of a relative path.
len_before_body(s) ==
    IF has_root(s) THEN 1
    ELSE IF Len(s) >= 1 /\ s[1] = "." /\ (Len(s) = 1 \/ s[2] = "/") THEN 1
    ELSE 0

\* Components::parse_next_component_back: the last segment of the body of
\* s and s without it (and without the separator before it).
last_component(s, lbb) ==
    LET body == SubSeq(s, lbb + 1, Len(s))
        seps == {i \in 1..Len(body) : body[i] = "/"}
        i    == IF seps = {} THEN 0 ELSE CHOOSE k \in seps : \A j \in seps : j <= k
        comp == SubSeq(body, i + 1, Len(body))
        size == Len(comp) + (IF i > 0 THEN 1 ELSE 0)
    IN  [comp |-> comp, rest |-> SubSeq(s, 1, Len(s) - size)]

\* Components::trim_right: drop trailing empty and '.' segments.
RECURSIVE trim_right(_, _)
trim_right(s, lbb) ==
    IF Len(s) <= lbb THEN s
    ELSE LET lc == last_component(s, lbb)
         IN  IF lc.comp = <<>> \/ lc.comp = CurDir THEN trim_right(lc.rest, lbb) ELSE s

\* Path::parent: the path without its last component; None for a path
\* that ends in the root and for the empty path.
parent(s) ==
    LET lbb == len_before_body(s)
        t   == trim_right(s, lbb)
    IN  IF Len(t) > lbb THEN Some(trim_right(last_component(t, lbb).rest, lbb))
        ELSE IF has_root(s) THEN None
        ELSE IF lbb = 1 THEN Some(<<>>)
        ELSE None

\* remove_base_dir(path, base): what follows the first occurrence of the
\* base string in the path string.  panicked: a to_str() or the split_once
\* is None.
remove_base_dir(path, base) ==
    LET sp == split_once(path, base)
    IN  IF ~to_str(path).some \/ ~to_str(base).some \/ ~sp.some
        THEN [panicked |-> TRUE, path |-> <<>>]
        ELSE [panicked |-> FALSE, path |-> sp.v[2]]

\* The prefix of every href.
FilesPrefix == <<"/", "f", "i", "l", "e", "s", "/">>

\* html_link(pb): <a href="/files/{pb}">{pb}</a>, with ".." as the text of
\* the empty path.
html_link(pb) ==
    <<"<a href=\"">> \o (FilesPrefix \o pb) \o <<"\">">>
    \o (IF pb = <<>> THEN <<".", ".">> ELSE pb) \o <<"</a>">>

\* The "<br>\n" after each link.
Br == <<"<br>\n">>

\* The child links of handle_dir, for the sorted children cs.
RECURSIVE child_links(_, _)
child_links(cs, base_dir) ==
    IF cs = <<>> THEN [panicked |-> FALSE, html |-> <<>>]
    ELSE LET p    == remove_base_dir(cs[1], base_dir)
             rest == child_links(Tail(cs), base_dir)
         IN  IF p.panicked \/ rest.panicked THEN [panicked |-> TRUE, html |-> <<>>]
             ELSE [panicked |-> FALSE, html |-> html_link(p.path) \o Br \o rest.html]

\* handle_dir(file_path, base_dir) on filesystem f.  panicked: the unwrap
\* of read_dir(), or a remove_base_dir that panics.
handle_dir(f, file_path, base_dir) ==
    LET entries == read_dir(f, file_path)
    IN  IF ~entries.some THEN [panicked |-> TRUE, resp |-> NoResponse]
        ELSE LET children == sort(entries.v)
                 dir      == remove_base_dir(file_path, base_dir)
             IN  IF dir.panicked THEN [panicked |-> TRUE, resp |-> NoResponse]
                 ELSE LET up    == parent(dir.path)
                          links == child_links(children, base_dir)
                      IN  IF links.panicked THEN [panicked |-> TRUE, resp |-> NoResponse]
                          ELSE [panicked |-> FALSE,
                                resp |-> Response(200, {},
                                    (IF up.some THEN html_link(up.v) \o Br ELSE <<>>)
                                    \o links.html)]

\* ------------------------------------------------------------------------
\* The server: state and steps
\* ------------------------------------------------------------------------

VARIABLES
    users,          \* Context.users, the map load_users returned
    fs,             \* the filesystem
    warn_enabled,   \* whether the logger evaluates warn! (RUST_LOG)
    req             \* per handling task: the request and the task's locals

vars == <<users, fs, warn_enabled, req>>

\* The handling tasks.
Tasks == {1}

\* The wildcard values clients send (percent-decoded, may contain '/').
WildcardPaths ==
    { <<"f">>, <<"d">>, <<"d", "/", "g">>, <<"l">>, <<"z">>, <<".">>, <<"s">>,
      <<".", ".", "/", "r", "x", "/", "s">>, <<"d", "/", ".", ".", "/", "f">>,
      <<".", ".", "/", "z">>, <<"/", "r", "x", "/", "s">>, <<"/", "r", "x">>,
      <<"d", "/", "\n">> }

\* What a request asks for: the route it matches and the Path extractor.
Targets ==
    {[route |-> "/files", path |-> None], [route |-> "/files/", path |-> None]}
    \cup {[route |-> "/files/{*wildcard}", path |-> Some(p)] : p \in WildcardPaths}

\* A task with no request.  Besides the request (header, route, path), its
\* extension (user), the handler's locals (dir, file_path) and the response,
\* a task records what it did: accesses (its filesystem calls), true_path
\* (what canonicalize returned in is_safe), seen (the kind of object exists()
\* found), opened (the contents File::open gave) and served (the canonical
\* path of the object it opened or enumerated).
Idle ==
    [pc |-> "idle", header |-> None, route |-> "", path |-> None,
     user |-> None, dir |-> <<>>, file_path |-> <<>>, opened |-> None,
     served |-> Err, true_path |-> Err, accesses |-> <<>>, seen |-> "none", vanished |-> FALSE,
     fs_changed |-> FALSE, resp |-> NoResponse]

Init ==
    /\ users = load_users
    /\ fs = InitFs
    /\ warn_enabled \in BOOLEAN
    /\ req = [t \in Tasks |-> Idle]

\* A request with a header of H and a target of T arrives: the router
\* matches its route; a wrapped route enters the middleware, an unwrapped
\* one the handler.
ReceiveFrom(t, H, T) ==
    /\ req[t].pc = "idle"
    /\ \E h \in H, tg \in T :
          req' = [req EXCEPT ![t] =
                    [Idle EXCEPT !.pc = IF layered(tg.route) THEN "basic_auth"
                                        ELSE "request_handler",
                                 !.header = h, !.route = tg.route, !.path = tg.path]]
    /\ UNCHANGED <<users, fs, warn_enabled>>

Receive(t) == ReceiveFrom(t, Headers, Targets)

\* The shared map after basic_auth handled a request with the given outcome
\* if a failed attempt locked the accounts.
users_after_lockout(us, outcome) ==
    IF outcome = "bad_password"
    THEN [u \in DOMAIN us |-> [us[u] EXCEPT !.password = <<>>]]
    ELSE us

\* The shared map after basic_auth handled a request: basic_auth only reads
\* it (users.get), whatever the outcome.
users_after_basic_auth(us, outcome) == us

\* basic_auth: insert the AuthenticatedUser and run the handler, or answer
\* 401.
BasicAuth(t) ==
    /\ req[t].pc = "basic_auth"
    /\ LET a == basic_auth(users, req[t].header)
       IN  /\ req' = [req EXCEPT ![t] =
                       IF a.outcome = "ok"
                       THEN [@ EXCEPT !.pc = "request_handler", !.user = a.au]
                       ELSE [@ EXCEPT !.pc = "done", !.resp = unauthorized(a.outcome)]]
           /\ users' = users_after_basic_auth(users, a.outcome)
    /\ UNCHANGED <<fs, warn_enabled>>

\* The identity the handler would get if the last identity accepted were
\* kept in a place all tasks share.
extension_shared(r, t) ==
    IF \E o \in DOMAIN r : o # t /\ r[o].user.some
    THEN r[CHOOSE o \in DOMAIN r : o # t /\ r[o].user.some].user
    ELSE r[t].user

\* Extension(user): the AuthenticatedUser in the extensions of the task's
\* own request.
extension(r, t) == r[t].user

\* request_handler up to and including exists(&absolute_file_path).
RequestHandler(t) ==
    /\ req[t].pc = "request_handler"
    /\ IF ~extension(req, t).some
       THEN req' = [req EXCEPT ![t] = [@ EXCEPT !.pc = "done", !.resp = missing_extension]]
       ELSE LET dir == extension(req, t).v.directory
                afp == absolute_file_path(dir, req[t].path)
            IN  IF ~to_str(afp).some
                THEN req' = [req EXCEPT ![t] = [@ EXCEPT !.pc = "panicked", !.dir = dir,
                                                         !.file_path = afp]]
                ELSE IF exists(fs, afp)
                THEN req' = [req EXCEPT ![t] =
                               [@ EXCEPT !.pc = "is_safe", !.dir = dir, !.file_path = afp,
                                         !.accesses = Append(@, "exists"),
                                         !.seen = Stat(fs, afp).kind]]
                ELSE req' = [req EXCEPT ![t] =
                               [@ EXCEPT !.pc = "done", !.dir = dir, !.file_path = afp,
                                         !.accesses = Append(@, "exists"),
                                         !.resp = not_found]]
    /\ UNCHANGED <<users, fs, warn_enabled>>

\* is_safe(&absolute_file_path, &dir), and the else branch of its caller.
IsSafe(t) ==
    /\ req[t].pc = "is_safe"
    /\ LET r == is_safe(fs, req[t].file_path, req[t].dir, warn_enabled)
           log == IF r.canonicalized THEN <<"canonicalize">> ELSE <<>>
       IN  req' = [req EXCEPT ![t] =
                     IF r.safe
                     THEN [@ EXCEPT !.pc = "is_file", !.true_path = r.true_path,
                                    !.accesses = @ \o log \o <<"safe">>]
                     ELSE IF r.panicked
                     THEN [@ EXCEPT !.pc = "panicked", !.true_path = r.true_path,
                                    !.accesses = @ \o log]
                     ELSE [@ EXCEPT !.pc = "done", !.true_path = r.true_path,
                                    !.accesses = @ \o log, !.resp = not_found]]
    /\ UNCHANGED <<users, fs, warn_enabled>>

\* absolute_file_path.is_file()
IsFile(t) ==
    /\ req[t].pc = "is_file"
    /\ req' = [req EXCEPT ![t] =
                 [@ EXCEPT !.pc = IF is_file(fs, req[t].file_path) THEN "open" ELSE "is_dir",
                           !.accesses = Append(@, "is_file")]]
    /\ UNCHANGED <<users, fs, warn_enabled>>

\* File::open(&absolute_file_path).await, then handle_file or not_found!().
Open(t) ==
    /\ req[t].pc = "open"
    /\ LET o == open(fs, req[t].file_path)
           r == handle_file(o.v, req[t].file_path)
       IN  req' = [req EXCEPT ![t] =
                     IF ~o.some
                     THEN [@ EXCEPT !.pc = "done", !.resp = not_found,
                                    !.accesses = Append(@, "open")]
                     ELSE IF r.panicked
                     THEN [@ EXCEPT !.pc = "panicked", !.opened = o,
                                    !.served = Resolve(fs, req[t].file_path),
                                    !.accesses = Append(@, "open")]
                     ELSE [@ EXCEPT !.pc = "done", !.resp = r.resp, !.opened = o,
                                    !.served = Resolve(fs, req[t].file_path),
                                    !.accesses = Append(@, "open")]]
    /\ UNCHANGED <<users, fs, warn_enabled>>

\* absolute_file_path.is_dir(), and the 500 of the else branch.
IsDir(t) ==
    /\ req[t].pc = "is_dir"
    /\ req' = [req EXCEPT ![t] =
                 IF is_dir(fs, req[t].file_path)
                 THEN [@ EXCEPT !.pc = "handle_dir", !.accesses = Append(@, "is_dir")]
                 ELSE [@ EXCEPT !.pc = "done", !.resp = internal_error,
                                !.accesses = Append(@, "is_dir")]]
    /\ UNCHANGED <<users, fs, warn_enabled>>

\* handle_dir(absolute_file_path, &PathBuf::from(dir))
HandleDir(t) ==
    /\ req[t].pc = "handle_dir"
    /\ LET r == handle_dir(fs, req[t].file_path, req[t].dir)
       IN  req' = [req EXCEPT ![t] =
                     IF r.panicked
                     THEN [@ EXCEPT !.pc = "panicked", !.accesses = Append(@, "read_dir")]
                     ELSE [@ EXCEPT !.pc = "done", !.resp = r.resp,
                                    !.served = Resolve(fs, req[t].file_path),
                                    !.accesses = Append(@, "read_dir")]]
    /\ UNCHANGED <<users, fs, warn_enabled>>

\* The task ends (response sent, or aborted by the panic); the next
\* request gets a fresh task.
Finish(t) ==
    /\ req[t].pc \in {"done", "panicked"}
    /\ req' = [req EXCEPT ![t] = Idle]
    /\ UNCHANGED <<users, fs, warn_enabled>>

\* Another process changes the tree.  fs_changed records that this happened
\* while the task had a request, vanished that the file the task saw at its
\* existence check is gone before the task opened it.
FsChangeOf(P) ==
    /\ \E cp \in P : \E n \in FsOptions(cp) :
          /\ n # fs[cp]
          /\ fs' = [fs EXCEPT ![cp] = n]
    /\ req' = [t \in DOMAIN req |->
                 IF req[t].pc = "idle" THEN req[t]
                 ELSE [req[t] EXCEPT
                         !.fs_changed = TRUE,
                         !.vanished = \/ @
                                      \/ /\ req[t].pc \in {"is_safe", "is_file", "open"}
                                         /\ req[t].seen = "file"
                                         /\ ~exists(fs', req[t].file_path)]]
    /\ UNCHANGED <<users, warn_enabled>>

FsChange == FsChangeOf(FsPaths)

Next ==
    \/ \E t \in Tasks : Receive(t)
    \/ \E t \in Tasks : BasicAuth(t)
    \/ \E t \in Tasks : RequestHandler(t)
    \/ \E t \in Tasks : IsSafe(t)
    \/ \E t \in Tasks : IsFile(t)
    \/ \E t \in Tasks : Open(t)
    \/ \E t \in Tasks : IsDir(t)
    \/ \E t \in Tasks : HandleDir(t)
    \/ \E t \in Tasks : Finish(t)
    \/ FsChange

Spec == Init /\ [][Next]_vars

\* ------------------------------------------------------------------------
\* Two requests handled concurrently
\* ------------------------------------------------------------------------

\* tokio runs each connection's handler as a task of its own; two of them.
ConcTasks == {1, 2}

\* The requests of the concurrent clients: a's and b's own credentials, a
\* wrong password for a, and the root, a file of each root and a directory.
ConcHeaders ==
    {BasicHeader(c) : c \in {<<"a", ":", "p">>, <<"b", ":", "q">>, <<"a", ":", "z">>}}

ConcTargets ==
    {[route |-> "/files", path |-> None]}
    \cup {[route |-> "/files/{*wildcard}", path |-> Some(p)] :
             p \in {<<"f">>, <<"s">>, <<"d">>}}

InitConc ==
    /\ users = load_users
    /\ fs = InitFs
    /\ warn_enabled \in BOOLEAN
    /\ req = [t \in ConcTasks |-> Idle]

ReceiveConc(t) == ReceiveFrom(t, ConcHeaders, ConcTargets)

\* Another process replaces, removes or restores /r/f.
FsChangeConc == FsChangeOf({pRF})

NextConc ==
    \/ \E t \in ConcTasks : ReceiveConc(t)
    \/ \E t \in ConcTasks : BasicAuth(t)
    \/ \E t \in ConcTasks : RequestHandler(t)
    \/ \E t \in ConcTasks : IsSafe(t)
    \/ \E t \in ConcTasks : IsFile(t)
    \/ \E t \in ConcTasks : Open(t)
    \/ \E t \in ConcTasks : IsDir(t)
    \/ \E t \in ConcTasks : HandleDir(t)
    \/ \E t \in ConcTasks : Finish(t)
    \/ FsChangeConc

SpecConc == InitConc /\ [][NextConc]_vars

\* ------------------------------------------------------------------------
\* Properties
\* ------------------------------------------------------------------------

\* The task has finished its request: it answered, or it was aborted.
Ended(t) == req[t].pc \in {"done", "panicked"}

\* The task answered its request.
Answered(t) == req[t].pc = "done"

\* The '/'-separated segments of the joined, unnormalized path of task t
\* include "..".
HasDotDotSegment(t) ==
    LET segs == Split(absolute_file_path(req[t].user.v.directory, req[t].path), "/")
    IN  \E i \in 1..Len(segs) : segs[i] = <<".", ".">>

\* The names of a path string, one per component after the root.
Names(s) == SelectSeq(Split(s, "/"), LAMBDA seg : seg # <<>> /\ seg # <<".">>)

\* C1: a request is answered 200 only if the canonical form of its joined
\* path, as computed at the safety check, has the user's root_directory as a
\* component-wise prefix.
C1_ServedOnlyInsideRoot ==
    \A t \in Tasks :
        (Answered(t) /\ req[t].resp.status = 200 /\ req[t].user.some) =>
            /\ req[t].true_path.ok
            /\ IsPrefix(Names(req[t].user.v.directory), Names(req[t].true_path.path))

\* A symbolic link inside the root was requested and served (its target was
\* inside the root at the check).
C1_Witness ==
    \E t \in Tasks :
        /\ Answered(t) /\ req[t].resp.status = 200
        /\ req[t].path = Some(<<"l">>)
        /\ req[t].user.v.directory = <<"/", "r">>

\* C2: an authenticated request whose joined path has a ".." segment is
\* answered 404.
C2_DotDotIs404 ==
    \A t \in Tasks :
        (Ended(t) /\ req[t].user.some /\ HasDotDotSegment(t)) =>
            (Answered(t) /\ req[t].resp.status = 404)

\* "d/../f", which exists and normalizes to a file inside the root, was
\* answered 404 after the existence check found it.
C2_Witness ==
    \E t \in Tasks :
        /\ Answered(t) /\ req[t].resp.status = 404
        /\ req[t].path = Some(<<"d", "/", ".", ".", "/", "f">>)
        /\ req[t].user.v.directory = <<"/", "r">>
        /\ req[t].accesses = <<"exists">>
        /\ req[t].seen = "file"

\* The header carries user u's own password: the text is u, ':' and the
\* password whose hash is stored for u.
CarriesOwnPassword(h, u) ==
    /\ u \in DOMAIN users
    /\ users[u].password = bcrypt_hash(Passwords[u])
    /\ h = BasicHeader(u \o <<":">> \o Passwords[u])

\* C3: a request that carries a configured user's name and correct
\* password is authenticated, with that user's name and root_directory as
\* its identity.
C3_CorrectPasswordAuthenticates ==
    \A t \in Tasks : \A u \in DOMAIN users :
        (req[t].pc \notin {"idle", "basic_auth"} /\ CarriesOwnPassword(req[t].header, u)) =>
            req[t].user = Some([username |-> u, directory |-> users[u].directory])

\* The filesystem calls of the Responder on the requested path.
ResponderCalls == {"exists", "is_file", "open", "is_dir", "read_dir"}

\* C4: every filesystem call of the Responder on the requested path comes
\* after the request passed the safety check.
C4_NoAccessBeforeCheck ==
    \A t \in Tasks : \A i \in 1..Len(req[t].accesses) :
        req[t].accesses[i] \in ResponderCalls =>
            \E j \in 1..(i-1) : req[t].accesses[j] = "safe"

\* The task is in, or has been through, request_handler.
InHandler(t) ==
    \/ req[t].pc \in {"request_handler", "is_safe", "is_file", "open", "is_dir",
                      "handle_dir", "panicked"}
    \/ req[t].accesses # <<>>
    \/ req[t].file_path # <<>>
    \/ Answered(t) /\ req[t].resp.status \in {200, 404, 500}

\* C5: the handler runs, and a 200, 404 or 500 is sent, only for a request
\* the Authenticator accepted and gave an identity; a request answered 401
\* never entered the handler.
C5_HandlerOnlyAfterAuth ==
    \A t \in Tasks :
        /\ InHandler(t) =>
              /\ req[t].user.some
              /\ req[t].user.v.username \in DOMAIN users
              /\ req[t].user.v.directory = users[req[t].user.v.username].directory
              /\ req[t].header.some
        /\ (Answered(t) /\ req[t].resp.status = 401) =>
              (~req[t].user.some /\ req[t].accesses = <<>> /\ req[t].file_path = <<>>)

\* A request on the route "/files/" was answered 200 (the listing of the
\* user's root), with the identity basic_auth inserted.
C5_Witness ==
    \E t \in Tasks :
        /\ Answered(t) /\ req[t].resp.status = 200
        /\ req[t].route = "/files/"
        /\ req[t].user.some

\* C6: every request that ends without an identity gets the same response:
\* 401, WWW-Authenticate: Basic realm="Files", body "Unauthorized".
C6_UniformReject ==
    \A t \in Tasks :
        (Answered(t) /\ ~req[t].user.some) =>
            req[t].resp = Response(401,
                                   {<<"WWW-Authenticate", <<"Basic realm=\"Files\"">>>>},
                                   <<"Unauthorized">>)

\* A request with an unknown username was rejected.
C6_Witness ==
    \E t \in Tasks :
        /\ Answered(t) /\ ~req[t].user.some
        /\ req[t].header = BasicHeader(<<"z", ":", "p">>)
        /\ req[t].resp.status = 401

\* The request of task t violated path safety: a ".." segment, a failed
\* canonicalization, or a canonical path outside the root.
PathSafetyViolation(t) ==
    /\ req[t].user.some
    /\ \/ HasDotDotSegment(t) /\ req[t].seen # "none"
       \/ /\ "canonicalize" \in {req[t].accesses[i] : i \in 1..Len(req[t].accesses)}
          /\ \/ ~req[t].true_path.ok
             \/ ~IsPrefix(Names(req[t].user.v.directory), Names(req[t].true_path.path))

\* C7: every path-safety violation is answered like a missing path: 404,
\* "Not Found", no headers.
C7_ViolationIs404 ==
    \A t \in Tasks :
        (Ended(t) /\ PathSafetyViolation(t)) =>
            (Answered(t) /\ req[t].resp = Response(404, {}, <<"Not Found">>))

\* C8: no task is aborted by a panic; every request is answered with 200,
\* 401, 404 or 500.
C8_NoPanic ==
    \A t \in Tasks :
        /\ req[t].pc # "panicked"
        /\ Answered(t) => req[t].resp.status \in {200, 401, 404, 500}

\* C9: a request whose file existed at the existence check and was removed
\* before it was opened is answered 404, never 500.
C9_VanishedIs404 ==
    \A t \in Tasks :
        (Answered(t) /\ req[t].seen = "file" /\ req[t].vanished) =>
            req[t].resp.status = 404

\* The request of task t names, by a path without "..", an openable regular
\* file inside the directory the user's root_directory denotes.
NamesFileInRoot(t) ==
    /\ req[t].user.some
    /\ ~HasDotDotSegment(t)
    /\ LET afp  == absolute_file_path(req[t].user.v.directory, req[t].path)
           root == Resolve(fs, req[t].user.v.directory)
           r    == Resolve(fs, afp)
       IN  /\ root.ok /\ r.ok
           /\ IsPrefix(root.path, r.path)
           /\ Lookup(fs, r.path).kind = "file"
           /\ Lookup(fs, r.path).readable

\* C10: a request for an openable regular file inside the user's root is
\* answered 200 with Content-Disposition naming the file's base name and
\* the file's contents as body (the tree not changing meanwhile).
C10_FileServed ==
    \A t \in Tasks :
        (Ended(t) /\ ~req[t].fs_changed /\ NamesFileInRoot(t)) =>
            LET afp == absolute_file_path(req[t].user.v.directory, req[t].path)
                segs == Names(afp)
            IN  /\ Answered(t)
                /\ req[t].resp.status = 200
                /\ <<"Content-Disposition",
                     <<"attachment; filename=\"">> \o segs[Len(segs)] \o <<"\"">>>>
                       \in req[t].resp.headers
                /\ req[t].resp.body = Lookup(fs, Resolve(fs, afp).path).data

\* The links of a listing body, in order: each "<a href=\"H\">T</a>" as
\* [href |-> H, text |-> T].
ListingLinks(body) ==
    LET pieces == SelectSeq(Split(body, "<br>\n"), LAMBDA pc : pc # <<>>)
        LinkOf(pc) ==
            LET sp == split_once(pc, <<"\">">>)
            IN  [href |-> Tail(sp.v[1]), text |-> SubSeq(sp.v[2], 1, Len(sp.v[2]) - 1)]
    IN  [i \in 1..Len(pieces) |-> LinkOf(pieces[i])]

\* The names of the entries of the directory with canonical path d.
ChildNames(f, d) ==
    {cp[Len(cp)] : cp \in {c \in DOMAIN f : /\ Len(c) = Len(d) + 1
                                            /\ SubSeq(c, 1, Len(d)) = d
                                            /\ f[c].kind # "none"}}

\* The last name of a path string.
LastName(s) == LET ns == Names(s) IN IF ns = <<>> THEN <<>> ELSE ns[Len(ns)]

\* Task t answered 200 with a directory listing, the tree not changing
\* during the request.
SentListing(t) ==
    /\ Answered(t) /\ req[t].resp.status = 200
    /\ req[t].accesses # <<>>
    /\ req[t].accesses[Len(req[t].accesses)] = "read_dir"
    /\ ~req[t].fs_changed

\* C11: the listing of a directory inside the root has exactly one link per
\* immediate child, in sorted order, plus exactly one parent link when the
\* directory is not the user's root and none when it is, however the root
\* is addressed.
C11_ListingLinks ==
    \A t \in DOMAIN req :
        SentListing(t) =>
            LET links == ListingLinks(req[t].resp.body)
                d     == Resolve(fs, req[t].file_path).path
                root  == Resolve(fs, req[t].dir).path
                kids  == ChildNames(fs, d)
                n     == Cardinality(kids)
                up    == IF d = root THEN 0 ELSE 1
            IN  /\ Len(links) = n + up
                /\ {LastName(links[i].text) : i \in (up + 1)..Len(links)} = kids
                /\ \A i \in (up + 1)..(Len(links) - 1) :
                      BytesLess(LastName(links[i].text), LastName(links[i+1].text))

\* What the client of task t sent.
Request(t) == <<req[t].header, req[t].route, req[t].path>>

\* A step of the server: some task moves.
ServerStep == \E t \in DOMAIN req : req'[t].pc # req[t].pc

\* Tasks t1 and t2 have both finished the same request, and the tree did not
\* change from the moment the earlier of them got it.  (A finished task
\* keeps its response while the other task handles any number of requests.)
SameRequestTwice(t1, t2) ==
    /\ t1 # t2
    /\ Ended(t1) /\ Ended(t2)
    /\ Request(t1) = Request(t2)
    /\ ~req[t1].fs_changed /\ ~req[t2].fs_changed

\* C12: handling requests never changes server state: the credential
\* mapping stays the one loaded at startup and no step of the server
\* changes the filesystem, so two identical requests against an unchanged
\* filesystem get the same status and body whatever other requests,
\* accepted or rejected, were handled in between.
C12_RequestsLeaveStateUnchanged ==
    /\ [](users = load_users)
    /\ [][ServerStep => (fs' = fs /\ users' = users)]_vars
    /\ [](\A t1, t2 \in DOMAIN req :
            SameRequestTwice(t1, t2) =>
                /\ req[t1].pc = req[t2].pc
                /\ req[t1].resp = req[t2].resp)

\* Two tasks got the same request and both answered it 200 with a body,
\* the tree not changing meanwhile.
C12_Witness ==
    /\ SameRequestTwice(1, 2)
    /\ req[1].resp.status = 200 /\ req[2].resp.status = 200
    /\ req[1].resp.body # <<>>

\* The configured users whose name and own password the request of task t
\* carries.
Carriers(t) == {u \in DOMAIN users : CarriesOwnPassword(req[t].header, u)}

\* Task t is between the handler's existence check and its response.
MidHandler(t) == req[t].pc \in {"is_safe", "is_file", "open", "is_dir", "handle_dir"}

\* C13: under every interleaving of two concurrently handled requests, the
\* identity a task holds is that of the user whose credentials its own
\* request carried, the path it resolves is that request's path joined to
\* that user's root_directory, what it serves lies under that root, and a
\* task without a request holds no identity.
C13_OwnIdentityOnly ==
    \A t \in DOMAIN req :
        /\ req[t].pc = "idle" => ~req[t].user.some
        /\ req[t].user.some =>
              \E u \in Carriers(t) :
                 req[t].user.v = [username |-> u, directory |-> load_users[u].directory]
        /\ req[t].file_path # <<>> =>
              \E u \in Carriers(t) :
                 /\ req[t].dir = load_users[u].directory
                 /\ req[t].file_path = absolute_file_path(load_users[u].directory, req[t].path)
                 /\ req[t].served.ok =>
                       IsPrefix(Resolve(fs, load_users[u].directory).path, req[t].served.path)

\* Two tasks are in the handler at the same time, one for a with root /r
\* and one for b with root /rx/, each past its existence check.
C13_Witness ==
    /\ MidHandler(1) /\ MidHandler(2)
    /\ req[1].user = Some([username |-> <<"a">>, directory |-> <<"/", "r">>])
    /\ req[2].user = Some([username |-> <<"b">>, directory |-> <<"/", "r", "x", "/">>])
    /\ req[1].dir = <<"/", "r">> /\ req[2].dir = <<"/", "r", "x", "/">>

\* C14: after a successful safety check the object the Responder opens or
\* enumerates is the one at the canonical path the check computed, even if
\* a symbolic link on the joined path is retargeted between the check and
\* the access.
C14_ServesWhatWasChecked ==
    \A t \in DOMAIN req :
        req[t].served.ok =>
            /\ req[t].true_path.ok
            /\ PathString(req[t].served.path) = req[t].true_path.path

\* Task t's request went through basic_auth.
PastBasicAuth(t) == req[t].pc \notin {"idle", "basic_auth"}

\* C15: when the decoded credential text contains no ':', the whole text
\* is the username and the password is empty: the request is authenticated
\* (as that user, with that user's root_directory) if and only if the text
\* is a configured username whose stored hash verifies the empty password,
\* and is otherwise answered with the standard 401.
C15_NoColonIsEmptyPassword ==
    \A t \in DOMAIN req : \A c \in Credentials :
        (~Contains(c, ":") /\ req[t].header = BasicHeader(c) /\ PastBasicAuth(t)) =>
            IF c \in DOMAIN users /\ users[c].password = bcrypt_hash(<<>>)
            THEN /\ req[t].user = Some([username |-> c, directory |-> users[c].directory])
                 /\ req[t].resp.status # 401
            ELSE /\ ~req[t].user.some
                 /\ Answered(t)
                 /\ req[t].resp = Response(401,
                                           {<<"WWW-Authenticate", <<"Basic realm=\"Files\"">>>>},
                                           <<"Unauthorized">>)

\* The text 'c' alone, the name of a user whose password is empty, was
\* accepted and the handler runs as c.
C15_Witness ==
    \E t \in DOMAIN req :
        /\ req[t].header = BasicHeader(<<"c">>)
        /\ req[t].pc = "is_safe"
        /\ req[t].user = Some([username |-> <<"c">>, directory |-> <<"/", "k">>])

\* What follows "/files/" in an href.
HrefRest(href) == SubSeq(href, Len(FilesPrefix) + 1, Len(href))

\* The path the handler joins when a client of the user with root dir
\* requests href: "/files/" alone matches the route without a wildcard,
\* anything longer the wildcard route with the remainder as its value.
FollowedPath(dir, href) ==
    absolute_file_path(dir, IF HrefRest(href) = <<>> THEN None ELSE Some(HrefRest(href)))

\* Requesting href as the user with root dir reaches the entry at the
\* canonical path entry: the joined path exists, passes the safety check
\* and resolves to that entry.
Navigates(dir, href, entry) ==
    LET afp == FollowedPath(dir, href)
    IN  /\ IsPrefix(FilesPrefix, href)
        /\ HrefRest(href) = <<>> \/ HrefRest(href)[1] # "/"
        /\ exists(fs, afp)
        /\ is_safe(fs, afp, dir, warn_enabled).safe
        /\ Resolve(fs, afp) = Resolve(fs, PathString(entry))

\* C16: every link of a 200 directory listing has an href of the form
\* /files/<path relative to the root>, and requesting it with the same
\* credentials against the unchanged filesystem reaches the entry the link
\* names: the child for a child link, the parent directory for the parent
\* link of a directory below the root; for a root_directory written with or
\* without a trailing slash.
C16_LinksNavigable ==
    \A t \in DOMAIN req :
        SentListing(t) =>
            LET links == ListingLinks(req[t].resp.body)
                d     == Resolve(fs, req[t].file_path).path
                root  == Resolve(fs, req[t].dir).path
                first == Len(links) - Cardinality(ChildNames(fs, d)) + 1
            IN  \A i \in 1..Len(links) :
                   IF i >= first
                   THEN Navigates(req[t].dir, links[i].href,
                                  d \o <<LastName(links[i].text)>>)
                   ELSE d # root =>
                           Navigates(req[t].dir, links[i].href, SubSeq(d, 1, Len(d) - 1))

====
